---- MODULE Spec2Model ----
(***************************************************************************)
(* mqtt_to_sqlite: an MQTT subscriber that writes every inbound message    *)
(* into an SQLite table and runs a throttled network repair script when    *)
(* the broker connection drops.                                            *)
(*                                                                         *)
(* The program is single threaded.  main() runs its start-up steps in      *)
(* order and then blocks in mosquitto_loop_forever(), which calls the      *)
(* three callbacks (handle_connect, handle_disconnect, handle_message).    *)
(* on_signal() may run between any two steps once it is installed.         *)
(* The broker client library and the SQLite engine are the environment:    *)
(* the model draws their results (connect ok / failed, CONNACK code,       *)
(* insert ok / failed, time) nondeterministically.                         *)
(***************************************************************************)
EXTENDS Integers, Sequences, FiniteSets, TLC

(***************************************************************************)
(* Program constants                                                       *)
(***************************************************************************)
SCRIPT_MIN_INTERVAL_SEC == 20
DefaultReconnectMin == 2
DefaultReconnectMax == 60
EnvIntMax == 1000000
SubscribeQos == 0

(***************************************************************************)
(* Bounds of the model                                                     *)
(***************************************************************************)
MaxTicks == 4         \* the wall clock is followed for this many short waits
MaxMsgs == 2          \* inbound message events per run
MaxDisconnects == 2   \* disconnect events that the peer or the network causes
MaxEnvLen == 2        \* length of an environment variable's value

VARIABLES
    pc,                 \* position of main(): env, db_init, mosq_new, connect, loop, done
    envMin, envMax,     \* values of RECONNECT_MIN_S / RECONNECT_MAX_S in the environment
    g_reconnect_min, g_reconnect_max,
    g_should_stop,
    signalled,          \* a termination signal was sent to the process since the handlers are installed
    g_mosq,             \* TRUE when g_mosq is non-NULL
    g_stmt_insert,      \* "null", "ready" (reset) or "executed" (stepped, not reset)
    g_last_script_run,
    exit_code,          \* -1 while the process runs
    mosq_state,         \* the client library's session state: none, active, disconnecting
    link,               \* the socket: closed, pending (CONNECT sent), up (CONNACK 0)
    subscribed,         \* the subscribe request of this session was accepted
    delayCfg,           \* what mosquitto_reconnect_delay_set was given
    loop_err,           \* mosquitto_loop() reported a fatal error
    schema,             \* the tables and indexes of the database file, in creation order
    table, seq,         \* rows of messages, and its AUTOINCREMENT counter
    now,                \* the wall clock, time(NULL)
    ev,                 \* what the last step of the program did, and the code it saw
    repair,             \* what run_network_repair_script did in that step, "none" if not called
    discLog,            \* every disconnect event so far: when, and whether the script ran
    delivered,          \* every message event so far, and whether its insert succeeded
    insertCalls,        \* calls of db_insert_message so far
    subReqs             \* subscribe requests issued on the current session

vars == <<pc, envMin, envMax, g_reconnect_min, g_reconnect_max, g_should_stop,
          signalled, schema, g_mosq, g_stmt_insert, g_last_script_run, exit_code, mosq_state, link,
          subscribed, delayCfg, loop_err, table, seq, now, ev, repair, discLog, delivered,
          insertCalls, subReqs>>

cfgVars == <<envMin, envMax, g_reconnect_min, g_reconnect_max>>
storeVars == <<schema, table, seq, delivered, insertCalls>>

(***************************************************************************)
(* Environment variables and env_or_default_int                            *)
(***************************************************************************)
Unset == <<"unset">>
EnvChars == {"0", "5", "-", "x"}
DigitVal(c) == IF c = "5" THEN 5 ELSE 0
IsDigit(c) == c \in {"0", "5"}

RECURSIVE SeqsUpTo(_)
SeqsUpTo(n) ==
    IF n = 0 THEN {<<>>}
    ELSE LET shorter == SeqsUpTo(n - 1)
         IN shorter \cup {Append(s, c) : s \in {t \in shorter : Len(t) = n - 1}, c \in EnvChars}

EnvStrings == SeqsUpTo(MaxEnvLen) \cup {Unset}

\* strtol(v, &end, 10) on a value without leading blanks: an optional sign,
\* then the longest run of digits.  end is the index of the first character
\* not consumed; it is 1 (the start) when no digit was read.
RECURSIVE ScanDigits(_, _, _)
ScanDigits(v, i, acc) ==
    IF i <= Len(v) /\ IsDigit(v[i])
    THEN ScanDigits(v, i + 1, acc * 10 + DigitVal(v[i]))
    ELSE [val |-> acc, end |-> i]

strtol(v) ==
    LET neg == Len(v) >= 1 /\ v[1] = "-"
        first == IF neg THEN 2 ELSE 1
        r == ScanDigits(v, first, 0)
    IN IF r.end = first THEN [val |-> 0, end |-> 1]
       ELSE [val |-> IF neg THEN 0 - r.val ELSE r.val, end |-> r.end]

env_or_default_int(v, defval) ==
    IF v = Unset \/ v = <<>> THEN defval
    ELSE LET r == strtol(v)
         IN IF r.end = 1 \/ r.end <= Len(v) THEN defval
            ELSE IF r.val < 0 \/ r.val > EnvIntMax THEN defval
            ELSE r.val

(***************************************************************************)
(* Inbound messages                                                        *)
(***************************************************************************)
g_topic == "#"
NoPayload == <<-1>>         \* msg->payload is NULL (payloadlen is 0): no bytes, not even none

Messages ==
    { [topic |-> "obk681BA32A/state", payload |-> <<104, 105>>, qos |-> 1, retain |-> 0],
      [topic |-> "obk681BA32A/raw", payload |-> <<7, 0, 9>>, qos |-> 0, retain |-> 1],
      [topic |-> "obk681BA32A/state", payload |-> <<>>, qos |-> 0, retain |-> 0],
      [topic |-> "obk681BA32A/state", payload |-> NoPayload, qos |-> 0, retain |-> 0] }

\* The C string that starts at bytes: everything before the first zero byte.
RECURSIVE CStr(_)
CStr(bytes) ==
    IF bytes = <<>> \/ Head(bytes) = 0 THEN <<>>
    ELSE <<Head(bytes)>> \o CStr(Tail(bytes))

(***************************************************************************)
(* Initial state: main() is entered, nothing is read or opened yet.        *)
(***************************************************************************)
\* The wall clock at process start, and the waits between two steps: one
\* shorter than the throttle interval, one as long as it.
StartClock == 100
ShortWait == 10
TickSteps == {ShortWait, SCRIPT_MIN_INTERVAL_SEC}

InitAt(envs, clocks) ==
    /\ pc = "env"
    /\ envMin \in envs
    /\ envMax \in envs
    /\ g_reconnect_min = DefaultReconnectMin
    /\ g_reconnect_max = DefaultReconnectMax
    /\ g_should_stop = 0
    /\ signalled = FALSE
    /\ g_mosq = FALSE
    /\ g_stmt_insert = "null"
    /\ g_last_script_run = 0
    /\ exit_code = -1
    /\ mosq_state = "none"
    /\ link = "closed"
    /\ subscribed = FALSE
    /\ delayCfg = [set |-> FALSE, delay |-> 1, max |-> 1]
    /\ loop_err = FALSE
    /\ schema = <<>>
    /\ table = <<>>
    /\ seq = 0
    /\ now \in clocks
    /\ ev = [kind |-> "start", rc |-> 0, sig |-> "none"]
    /\ repair = "none"
    /\ discLog = <<>>
    /\ delivered = <<>>
    /\ insertCalls = 0
    /\ subReqs = <<>>

InitWith(envs) == InitAt(envs, {StartClock})

Init == InitWith({Unset})

(***************************************************************************)
(* Repair Trigger                                                          *)
(***************************************************************************)
\* Variant: the throttle test is missing.
run_network_repair_script_unthrottled(launched) ==
    /\ g_last_script_run' = now
    /\ repair' = IF launched THEN "ran" ELSE "launch_failed"

\* Variant: the throttle test is inverted.
run_network_repair_script_inverted(launched) ==
    IF now - g_last_script_run > SCRIPT_MIN_INTERVAL_SEC
    THEN /\ repair' = "throttled"
         /\ UNCHANGED g_last_script_run
    ELSE /\ g_last_script_run' = now
         /\ repair' = IF launched THEN "ran" ELSE "launch_failed"

\* Variant: a throttled call refreshes the timestamp.
run_network_repair_script_sliding(launched) ==
    IF now - g_last_script_run < SCRIPT_MIN_INTERVAL_SEC
    THEN /\ repair' = "throttled"
         /\ g_last_script_run' = now
    ELSE /\ g_last_script_run' = now
         /\ repair' = IF launched THEN "ran" ELSE "launch_failed"

\* Variant: the timestamp is recorded after system(), when it succeeded.
run_network_repair_script_stamp_after(launched) ==
    IF now - g_last_script_run < SCRIPT_MIN_INTERVAL_SEC
    THEN /\ repair' = "throttled"
         /\ UNCHANGED g_last_script_run
    ELSE /\ g_last_script_run' = IF launched THEN now ELSE g_last_script_run
         /\ repair' = IF launched THEN "ran" ELSE "launch_failed"

\* launched: system() could start the shell (it returns -1 otherwise).
\* The timestamp is written before system() is called.
run_network_repair_script(launched) ==
    IF now - g_last_script_run < SCRIPT_MIN_INTERVAL_SEC
    THEN /\ repair' = "throttled"
         /\ UNCHANGED g_last_script_run
    ELSE /\ g_last_script_run' = now
         /\ repair' = IF launched THEN "ran" ELSE "launch_failed"

NoRepair == repair' = "none" /\ UNCHANGED g_last_script_run

\* The external command was started (or its start was attempted) in a step
\* whose repair outcome is r.
Fired(r) == r \in {"ran", "launch_failed"}

(***************************************************************************)
(* The database file and db_init                                           *)
(***************************************************************************)
SQLITE_OK == 0
SQLITE_ERROR == 1        \* SQL error, e.g. "table messages already exists"
SQLITE_NOMEM == 7
SQLITE_IOERR == 10
SQLITE_CANTOPEN == 14

\* Variant: the statements are not guarded by IF NOT EXISTS.
SchemaDDL_unguarded ==
    << [kind |-> "table", name |-> "messages", ifNotExists |-> FALSE],
       [kind |-> "index", name |-> "idx_messages_ts", ifNotExists |-> FALSE],
       [kind |-> "index", name |-> "idx_messages_topic", ifNotExists |-> FALSE] >>

\* The statements of the ddl string, in order.
SchemaDDL ==
    << [kind |-> "table", name |-> "messages", ifNotExists |-> TRUE],
       [kind |-> "index", name |-> "idx_messages_ts", ifNotExists |-> TRUE],
       [kind |-> "index", name |-> "idx_messages_topic", ifNotExists |-> TRUE] >>

\* sqlite3_exec(g_db, ddl, ...) from statement i on: the statements run in
\* order and the first error ends the call.  A CREATE whose object exists is
\* skipped when guarded and an SQL error otherwise.  failAt is the statement
\* that meets an I/O error (0: none does).
RECURSIVE sqlite3_exec(_, _, _, _)
sqlite3_exec(objs, stmts, i, failAt) ==
    IF i > Len(stmts) THEN [rc |-> SQLITE_OK, objs |-> objs]
    ELSE IF i = failAt THEN [rc |-> SQLITE_IOERR, objs |-> objs]
    ELSE IF \E k \in 1..Len(objs) : objs[k].name = stmts[i].name
    THEN IF stmts[i].ifNotExists
         THEN sqlite3_exec(objs, stmts, i + 1, failAt)
         ELSE [rc |-> SQLITE_ERROR, objs |-> objs]
    ELSE sqlite3_exec(Append(objs, [kind |-> stmts[i].kind, name |-> stmts[i].name]),
                      stmts, i + 1, failAt)

\* db_init on the database file whose objects are objs: the code of the call
\* that failed (SQLITE_OK when db_init returns 0), the objects of the file
\* afterwards, and the insert statement.  sqlite3_open creates the file when
\* it is missing; the results of the three PRAGMAs are not looked at.
\* openOk: sqlite3_open succeeded; prepOk: sqlite3_prepare_v2 did.
db_init(objs, openOk, failAt, prepOk) ==
    IF ~openOk THEN [rc |-> SQLITE_CANTOPEN, objs |-> objs, stmt |-> "null"]
    ELSE LET r == sqlite3_exec(objs, SchemaDDL, 1, failAt)
         IN IF r.rc # SQLITE_OK THEN [rc |-> r.rc, objs |-> r.objs, stmt |-> "null"]
            ELSE IF ~prepOk THEN [rc |-> SQLITE_NOMEM, objs |-> r.objs, stmt |-> "null"]
            ELSE [rc |-> SQLITE_OK, objs |-> r.objs, stmt |-> "ready"]

(***************************************************************************)
(* Store Writer                                                            *)
(***************************************************************************)
\* Variant: the payload is bound with its length, zero bytes included.
PayloadText_whole(payload, mallocOk) ==
    IF payload # NoPayload /\ mallocOk THEN payload ELSE <<>>

\* The text bound to the payload column: the bytes are copied into a
\* buffer of payloadlen + 1 bytes, a zero byte is appended, and
\* sqlite3_bind_text(..., -1, ...) reads up to the first zero.  Without a
\* payload, or without the buffer (mallocOk: malloc returned it), "" is bound.
PayloadText(payload, mallocOk) ==
    IF payload # NoPayload /\ mallocOk THEN CStr(payload \o <<0>>) ELSE <<>>

\* Variant: the timestamp column is bound to a constant.
db_insert_message_no_clock(topic, payload, qos, retain, mallocOk, stepOk) ==
    /\ insertCalls' = insertCalls + 1
    /\ IF g_stmt_insert = "null"
       THEN UNCHANGED <<table, seq, g_stmt_insert>>
       ELSE /\ g_stmt_insert' = "executed"
            /\ IF stepOk
               THEN /\ table' = Append(table, [id |-> seq + 1, ts |-> 0,
                                               topic |-> topic,
                                               payload |-> PayloadText(payload, mallocOk),
                                               qos |-> qos, retain |-> retain])
                    /\ seq' = seq + 1
               ELSE UNCHANGED <<table, seq>>

\* Variant: the statement is stepped twice.
db_insert_message_twice(topic, payload, qos, retain, mallocOk, stepOk) ==
    /\ insertCalls' = insertCalls + 1
    /\ IF g_stmt_insert = "null"
       THEN UNCHANGED <<table, seq, g_stmt_insert>>
       ELSE /\ g_stmt_insert' = "executed"
            /\ IF stepOk
               THEN LET row(n) == [id |-> n, ts |-> now, topic |-> topic,
                                   payload |-> PayloadText(payload, mallocOk),
                                   qos |-> qos, retain |-> retain]
                    IN /\ table' = table \o <<row(seq + 1), row(seq + 2)>>
                       /\ seq' = seq + 2
               ELSE UNCHANGED <<table, seq>>

\* Variant: a failed step finalizes the statement.
db_insert_message_giveup(topic, payload, qos, retain, mallocOk, stepOk) ==
    /\ insertCalls' = insertCalls + 1
    /\ IF g_stmt_insert = "null"
       THEN UNCHANGED <<table, seq, g_stmt_insert>>
       ELSE IF stepOk
            THEN /\ g_stmt_insert' = "executed"
                 /\ table' = Append(table, [id |-> seq + 1, ts |-> now,
                                            topic |-> topic,
                                            payload |-> PayloadText(payload, mallocOk),
                                            qos |-> qos, retain |-> retain])
                 /\ seq' = seq + 1
            ELSE /\ g_stmt_insert' = "null"
                 /\ UNCHANGED <<table, seq>>

\* Variant: the statement is not reset on entry; binding and stepping a
\* statement that was stepped and not reset fails.
db_insert_message_no_reset(topic, payload, qos, retain, mallocOk, stepOk) ==
    /\ insertCalls' = insertCalls + 1
    /\ IF g_stmt_insert = "null"
       THEN UNCHANGED <<table, seq, g_stmt_insert>>
       ELSE /\ g_stmt_insert' = "executed"
            /\ IF stepOk /\ g_stmt_insert = "ready"
               THEN /\ table' = Append(table, [id |-> seq + 1, ts |-> now,
                                               topic |-> topic,
                                               payload |-> PayloadText(payload, mallocOk),
                                               qos |-> qos, retain |-> retain])
                    /\ seq' = seq + 1
               ELSE UNCHANGED <<table, seq>>

\* stepOk: sqlite3_step returned SQLITE_DONE.  sqlite3_reset and
\* sqlite3_clear_bindings run on entry, before the values are bound, so the
\* call does the same on a fresh statement and on one stepped before;
\* nothing resets the statement after the step.
db_insert_message(topic, payload, qos, retain, mallocOk, stepOk) ==
    /\ insertCalls' = insertCalls + 1
    /\ IF g_stmt_insert = "null"
       THEN UNCHANGED <<table, seq, g_stmt_insert>>
       ELSE /\ g_stmt_insert' = "executed"
            /\ IF stepOk
               THEN /\ table' = Append(table, [id |-> seq + 1, ts |-> now,
                                               topic |-> topic,
                                               payload |-> PayloadText(payload, mallocOk),
                                               qos |-> qos, retain |-> retain])
                    /\ seq' = seq + 1
               ELSE UNCHANGED <<table, seq>>

(***************************************************************************)
(* MQTT callbacks                                                          *)
(***************************************************************************)
\* Variant: the subscribe request is issued twice.
handle_connect_twice(rc, subOk) ==
    IF rc = 0
    THEN /\ subReqs' = subReqs \o <<[topic |-> g_topic, qos |-> SubscribeQos],
                                    [topic |-> g_topic, qos |-> SubscribeQos]>>
         /\ subscribed' = subOk
    ELSE UNCHANGED <<subReqs, subscribed>>

\* subOk: mosquitto_subscribe returned MOSQ_ERR_SUCCESS.
handle_connect(rc, subOk) ==
    IF rc = 0
    THEN /\ subReqs' = Append(subReqs, [topic |-> g_topic, qos |-> SubscribeQos])
         /\ subscribed' = subOk
    ELSE UNCHANGED <<subReqs, subscribed>>

\* Variant: a disconnect with code 0 (requested locally) is not repaired.
handle_disconnect_errors_only(rc, launched) ==
    IF rc = 0 THEN repair' = "none" /\ UNCHANGED g_last_script_run
    ELSE run_network_repair_script(launched)

handle_disconnect(rc, launched) ==
    run_network_repair_script(launched)

handle_message(msg, mallocOk, stepOk) ==
    db_insert_message(msg.topic, msg.payload, msg.qos, msg.retain, mallocOk, stepOk)

(***************************************************************************)
(* Signal handler                                                          *)
(***************************************************************************)
\* The signals that install_sig_handlers routes to on_signal.
TermSignals == {"SIGINT", "SIGTERM"}

on_signal ==
    /\ g_should_stop' = 1
    /\ mosq_state' = IF g_mosq THEN "disconnecting" ELSE mosq_state

\* A termination signal that arrives while a callback is at work ("none":
\* no signal does).  on_signal runs on the same thread and returns into the
\* interrupted operation.  inSystem: the callback is waiting in system() for
\* the repair command; system() ignores SIGINT in the caller for that time,
\* so that signal reaches no handler.
SignalDuring(signo, inSystem) ==
    IF signo = "none"
    THEN UNCHANGED <<g_should_stop, mosq_state, signalled>>
    ELSE /\ signalled' = TRUE
         /\ IF signo = "SIGINT" /\ inSystem
            THEN UNCHANGED <<g_should_stop, mosq_state>>
            ELSE on_signal

\* A termination signal between two steps of the program.
Signal ==
    /\ pc \in {"db_init", "mosq_new", "connect", "loop"}
    /\ on_signal
    /\ signalled' = TRUE
    /\ UNCHANGED <<pc, cfgVars, g_mosq, g_stmt_insert, g_last_script_run, exit_code,
                   link, subscribed, delayCfg, loop_err, storeVars, now, ev, repair,
                   discLog, subReqs>>

(***************************************************************************)
(* main(): start-up                                                        *)
(***************************************************************************)
\* Read the environment overrides and install the signal handlers.
MainReadEnv ==
    /\ pc = "env"
    /\ g_reconnect_min' = env_or_default_int(envMin, DefaultReconnectMin)
    /\ g_reconnect_max' = env_or_default_int(envMax, DefaultReconnectMax)
    /\ pc' = "db_init"
    /\ ev' = [kind |-> "env", rc |-> 0, sig |-> "none"]
    /\ NoRepair
    /\ UNCHANGED <<envMin, envMax, g_should_stop, signalled, g_mosq, g_stmt_insert, exit_code,
                   mosq_state, link, subscribed, delayCfg, loop_err, storeVars, now,
                   discLog, subReqs>>

\* db_init: open, create the schema, prepare the insert; exit 1 when it fails.
MainDbInit ==
    /\ pc = "db_init"
    /\ \E openOk \in BOOLEAN, failAt \in 0..Len(SchemaDDL), prepOk \in BOOLEAN :
         LET r == db_init(schema, openOk, failAt, prepOk)
         IN /\ schema' = r.objs
            /\ g_stmt_insert' = r.stmt
            /\ ev' = [kind |-> "db_init", rc |-> r.rc, sig |-> "none"]
            /\ IF r.rc = SQLITE_OK
               THEN pc' = "mosq_new" /\ UNCHANGED exit_code
               ELSE pc' = "done" /\ exit_code' = 1
    /\ NoRepair
    /\ UNCHANGED <<cfgVars, g_should_stop, signalled, g_mosq, mosq_state, link, subscribed,
                   delayCfg, loop_err, table, seq, delivered, insertCalls, now,
                   discLog, subReqs>>

\* mosquitto_new, the three callbacks, and mosquitto_reconnect_delay_set;
\* db_close and exit 1 when the session object cannot be allocated.
MainMosqNew ==
    /\ pc = "mosq_new"
    /\ \E ok \in BOOLEAN :
         IF ok
         THEN /\ g_mosq' = TRUE
              /\ mosq_state' = "active"
              /\ delayCfg' = [set |-> TRUE, delay |-> g_reconnect_min,
                              max |-> g_reconnect_max]
              /\ pc' = "connect"
              /\ ev' = [kind |-> "mosq_new", rc |-> 0, sig |-> "none"]
              /\ UNCHANGED <<exit_code, g_stmt_insert>>
         ELSE /\ g_stmt_insert' = "null"
              /\ pc' = "done"
              /\ exit_code' = 1
              /\ ev' = [kind |-> "mosq_new", rc |-> 1, sig |-> "none"]
              /\ UNCHANGED <<g_mosq, mosq_state, delayCfg>>
    /\ NoRepair
    /\ UNCHANGED <<cfgVars, g_should_stop, signalled, link, subscribed, loop_err, storeVars,
                   now, discLog, subReqs>>

\* Variant: a failed initial connect does not run the repair trigger.
MainConnect_no_repair ==
    /\ pc = "connect"
    /\ \E ok \in BOOLEAN :
         IF ok
         THEN /\ link' = "pending"
              /\ ev' = [kind |-> "connect_ok", rc |-> 0, sig |-> "none"]
         ELSE /\ link' = "closed"
              /\ ev' = [kind |-> "connect_fail", rc |-> 1, sig |-> "none"]
    /\ NoRepair
    /\ mosq_state' = "active"
    /\ pc' = "loop"
    /\ UNCHANGED <<cfgVars, g_should_stop, signalled, g_mosq, g_stmt_insert, exit_code, subscribed,
                   delayCfg, loop_err, storeVars, now, discLog, subReqs>>

\* The initial mosquitto_connect; a failure runs the repair trigger and the
\* run loop is entered either way.  Connecting starts a new session, which
\* replaces a disconnect requested before it.
MainConnect ==
    /\ pc = "connect"
    /\ \E ok \in BOOLEAN, launched \in BOOLEAN :
         IF ok
         THEN /\ link' = "pending"
              /\ ev' = [kind |-> "connect_ok", rc |-> 0, sig |-> "none"]
              /\ NoRepair
         ELSE /\ link' = "closed"
              /\ ev' = [kind |-> "connect_fail", rc |-> 1, sig |-> "none"]
              /\ run_network_repair_script(launched)
    /\ mosq_state' = "active"
    /\ pc' = "loop"
    /\ UNCHANGED <<cfgVars, g_should_stop, signalled, g_mosq, g_stmt_insert, exit_code, subscribed,
                   delayCfg, loop_err, storeVars, now, discLog, subReqs>>

(***************************************************************************)
(* main(): mosquitto_loop_forever and the events it dispatches             *)
(***************************************************************************)
InLoop == pc = "loop" /\ ~loop_err

\* A CONNACK arrives.  Code 0 opens the session and handle_connect
\* subscribes.  A refusal is passed to handle_connect too; the library then
\* closes the socket and reports the disconnect.
LoopConnack ==
    /\ InLoop
    /\ link = "pending"
    /\ mosq_state = "active"
    /\ \E rc \in {0, 5}, subOk \in BOOLEAN, launched \in BOOLEAN :
         /\ handle_connect(rc, subOk)
         /\ IF rc = 0
            THEN /\ link' = "up"
                 /\ NoRepair
                 /\ UNCHANGED discLog
            ELSE /\ Len(discLog) < MaxDisconnects
                 /\ link' = "closed"
                 /\ handle_disconnect(rc, launched)
                 /\ discLog' = Append(discLog, [at |-> now, ran |-> Fired(repair'),
                                                out |-> repair'])
         /\ ev' = [kind |-> "connack", rc |-> rc, sig |-> "none"]
    /\ UNCHANGED <<pc, cfgVars, g_should_stop, signalled, g_mosq, g_stmt_insert, exit_code,
                   mosq_state, delayCfg, loop_err, storeVars, now>>

\* Variant: a signal that arrives during the insert makes the handler give
\* the write up.
LoopMessage_interrupted ==
    /\ InLoop
    /\ link = "up"
    /\ subscribed
    /\ mosq_state = "active"
    /\ Len(delivered) < MaxMsgs
    /\ \E msg \in Messages, mallocOk \in BOOLEAN, stepOk \in BOOLEAN,
          signo \in TermSignals \cup {"none"} :
         /\ msg.payload = NoPayload => mallocOk
         /\ IF signo = "none"
            THEN handle_message(msg, mallocOk, stepOk)
            ELSE /\ insertCalls' = insertCalls + 1
                 /\ g_stmt_insert' = "executed"
                 /\ UNCHANGED <<table, seq>>
         /\ SignalDuring(signo, FALSE)
         /\ delivered' = Append(delivered, [msg |-> msg, mem |-> mallocOk,
                                            ok |-> stepOk])
         /\ ev' = [kind |-> "message", rc |-> IF stepOk THEN 0 ELSE 1, sig |-> signo]
    /\ NoRepair
    /\ UNCHANGED <<pc, cfgVars, g_mosq, exit_code, link, subscribed, delayCfg,
                   loop_err, schema, now, discLog, subReqs>>

\* A PUBLISH arrives on the subscribed session.  mallocOk is drawn only when
\* there is a payload to copy; signo is the termination signal that arrives
\* while the insert is at work, if any.
LoopMessage ==
    /\ InLoop
    /\ link = "up"
    /\ subscribed
    /\ mosq_state = "active"
    /\ Len(delivered) < MaxMsgs
    /\ \E msg \in Messages, mallocOk \in BOOLEAN, stepOk \in BOOLEAN,
          signo \in TermSignals \cup {"none"} :
         /\ msg.payload = NoPayload => mallocOk
         /\ handle_message(msg, mallocOk, stepOk)
         /\ SignalDuring(signo, FALSE)
         /\ delivered' = Append(delivered, [msg |-> msg, mem |-> mallocOk,
                                            ok |-> stepOk])
         /\ ev' = [kind |-> "message", rc |-> IF stepOk THEN 0 ELSE 1, sig |-> signo]
    /\ NoRepair
    /\ UNCHANGED <<pc, cfgVars, g_mosq, exit_code, link, subscribed, delayCfg,
                   loop_err, schema, now, discLog, subReqs>>

\* The socket is gone.  After a local mosquitto_disconnect the library reports
\* code 0; otherwise the peer or the network ended the session (7: connection
\* lost), or the peer broke the protocol (2), which also ends the run loop.
\* signo is the termination signal that arrives while handle_disconnect is
\* at work, if any.
LoopDisconnect ==
    /\ InLoop
    /\ link # "closed"
    /\ \E rc \in {0, 7, 2}, launched \in BOOLEAN, signo \in TermSignals \cup {"none"} :
         /\ (rc = 0) = (mosq_state = "disconnecting")
         /\ rc # 0 => Len(discLog) < MaxDisconnects
         /\ handle_disconnect(rc, launched)
         /\ SignalDuring(signo, repair' = "ran")
         /\ discLog' = Append(discLog, [at |-> now, ran |-> Fired(repair'),
                                        out |-> repair'])
         /\ loop_err' = (rc = 2)
         /\ ev' = [kind |-> "disconnect", rc |-> rc, sig |-> signo]
    /\ link' = "closed"
    /\ UNCHANGED <<pc, cfgVars, g_mosq, g_stmt_insert, exit_code, subscribed,
                   delayCfg, storeVars, now, subReqs>>

\* The reconnect scheduler: with the socket closed and no disconnect
\* requested, the loop sleeps and calls mosquitto_reconnect.  No callback of
\* the program runs, whether the attempt succeeds or fails.
LoopReconnect ==
    /\ InLoop
    /\ link = "closed"
    /\ mosq_state = "active"
    /\ \E ok \in BOOLEAN :
         IF ok
         THEN /\ link' = "pending"
              /\ subReqs' = <<>>
              /\ subscribed' = FALSE
              /\ ev' = [kind |-> "reconnect_ok", rc |-> 0, sig |-> "none"]
         ELSE /\ ev' = [kind |-> "reconnect_fail", rc |-> 1, sig |-> "none"]
              /\ UNCHANGED <<link, subReqs, subscribed>>
    /\ NoRepair
    /\ UNCHANGED <<pc, cfgVars, g_should_stop, signalled, g_mosq, g_stmt_insert, exit_code,
                   mosq_state, delayCfg, loop_err, storeVars, now, discLog>>

\* mosquitto_loop_forever returns: after a requested disconnect once the
\* socket is closed, or with the fatal error.  main destroys the session,
\* closes the database and returns 0.
LoopReturn ==
    /\ pc = "loop"
    /\ link = "closed"
    /\ loop_err \/ mosq_state = "disconnecting"
    /\ pc' = "done"
    /\ exit_code' = 0
    /\ g_stmt_insert' = "null"
    /\ ev' = [kind |-> "loop_return", rc |-> IF loop_err THEN 2 ELSE 0, sig |-> "none"]
    /\ NoRepair
    /\ UNCHANGED <<cfgVars, g_should_stop, signalled, g_mosq, mosq_state, link, subscribed,
                   delayCfg, loop_err, storeVars, now, discLog, subReqs>>

(***************************************************************************)
(* The wall clock                                                          *)
(***************************************************************************)
Tick ==
    /\ pc # "done"
    /\ \E d \in TickSteps :
         /\ now + d <= StartClock + MaxTicks * ShortWait
         /\ now' = now + d
    /\ UNCHANGED <<pc, cfgVars, g_should_stop, signalled, g_mosq, g_stmt_insert,
                   g_last_script_run, exit_code, mosq_state, link, subscribed,
                   delayCfg, loop_err, storeVars, ev, repair, discLog, subReqs>>

(***************************************************************************)
(* A later start of the program                                            *)
(***************************************************************************)
\* The process has ended and the program is started again, with the same
\* environment and on the same database file: the globals have their
\* initial values, the file (schema, rows, AUTOINCREMENT counter) is as the
\* earlier run left it.
Restart ==
    /\ pc = "done"
    /\ pc' = "env"
    /\ g_reconnect_min' = DefaultReconnectMin
    /\ g_reconnect_max' = DefaultReconnectMax
    /\ g_should_stop' = 0
    /\ signalled' = FALSE
    /\ g_mosq' = FALSE
    /\ g_stmt_insert' = "null"
    /\ g_last_script_run' = 0
    /\ exit_code' = -1
    /\ mosq_state' = "none"
    /\ link' = "closed"
    /\ subscribed' = FALSE
    /\ delayCfg' = [set |-> FALSE, delay |-> 1, max |-> 1]
    /\ loop_err' = FALSE
    /\ ev' = [kind |-> "start", rc |-> 0, sig |-> "none"]
    /\ repair' = "none"
    /\ discLog' = <<>>
    /\ subReqs' = <<>>
    /\ UNCHANGED <<envMin, envMax, storeVars, now>>

(***************************************************************************)
(* Specifications                                                          *)
(***************************************************************************)
\* The program's own steps and the connection events of the transport.
Program ==
    \/ MainReadEnv
    \/ MainDbInit
    \/ MainMosqNew
    \/ MainConnect
    \/ LoopConnack
    \/ LoopDisconnect
    \/ LoopReconnect
    \/ LoopReturn
    \/ Signal

\* A run with inbound messages, all within one second of the wall clock.
Next == Program \/ LoopMessage

Spec == Init /\ [][Next]_vars

\* A run on a silent subscription while the wall clock advances.
NextTimed == Program \/ Tick

SpecTimed == Init /\ [][NextTimed]_vars

\* Start-up under every value of the two backoff variables.
InitConfig == InitWith(EnvStrings)

NextConfig == MainReadEnv \/ MainDbInit \/ MainMosqNew

SpecConfig == InitConfig /\ [][NextConfig]_vars

\* Inbound messages on the first session while the wall clock advances.
NextStore ==
    \/ MainReadEnv
    \/ MainDbInit
    \/ MainMosqNew
    \/ MainConnect
    \/ LoopConnack
    \/ LoopMessage
    \/ Tick

SpecStore == Init /\ [][NextStore]_vars

\* Runs of the program one after the other on the same database file.
NextRestart == Next \/ Restart

SpecRestart == Init /\ [][NextRestart]_vars

\* A run that starts on a device whose clock is not set yet: it reads a few
\* seconds past the epoch.
EarlyClock == 5

InitEarlyClock == InitAt({Unset}, {EarlyClock})

SpecEarlyClock == InitEarlyClock /\ [][NextTimed]_vars

\* What the program does by itself once it can: main goes from one call to
\* the next, the transport reports the end of a session whose disconnect
\* was requested, and mosquitto_loop_forever returns once it has to.  The
\* reconnect scheduler keeps trying, and here it gets through in the end
\* and the broker answers.  Nothing makes the broker publish, the network
\* fail or anyone send a signal.
LoopDisconnectRequested == mosq_state = "disconnecting" /\ LoopDisconnect

Fairness ==
    /\ WF_vars(MainReadEnv)
    /\ WF_vars(MainDbInit)
    /\ WF_vars(MainMosqNew)
    /\ WF_vars(MainConnect)
    /\ WF_vars(LoopReconnect)
    /\ WF_vars(LoopConnack)
    /\ WF_vars(LoopDisconnectRequested)
    /\ WF_vars(LoopReturn)

SpecLive == Init /\ [][Next]_vars /\ Fairness

(***************************************************************************)
(* Properties                                                              *)
(***************************************************************************)
\* The row that the successful insert of message event d writes, apart from
\* id and ts.
RowMatches(row, d) ==
    /\ row.topic = d.msg.topic
    /\ row.payload = PayloadText(d.msg.payload, d.mem)
    /\ row.qos = d.msg.qos
    /\ row.retain = d.msg.retain

\* The message events whose insert succeeded, in delivery order.
RECURSIVE Written(_)
Written(log) ==
    IF log = <<>> THEN <<>>
    ELSE IF Head(log).ok THEN <<Head(log)>> \o Written(Tail(log))
    ELSE Written(Tail(log))

AllWritten == \A i \in 1..Len(delivered) : delivered[i].ok

\* C1: the insert operation is called exactly once per delivered message
\* event, and when no write failed the store holds exactly one record per
\* event, record i being event i, with strictly increasing ids.
C1_OneRecordPerMessageInOrder ==
    /\ insertCalls = Len(delivered)
    /\ AllWritten =>
         /\ Len(table) = Len(delivered)
         /\ \A i \in 1..Len(table) : RowMatches(table[i], delivered[i])
         /\ \A i, j \in 1..Len(table) : i < j => table[i].id < table[j].id

C1_Witness ==
    /\ Len(delivered) = MaxMsgs
    /\ AllWritten
    /\ Len(table) = MaxMsgs
    /\ delivered[1].msg # delivered[2].msg
    /\ Len(discLog) >= 1

\* C2: a failed write drops that message alone: the store holds exactly the
\* messages whose write succeeded, in order (nothing for the failed one, no
\* later retry, the following message recorded), and after a failed write
\* the process is still in its run loop on the open session.
C2_FailedWriteDropsOnlyThatMessage ==
    /\ Len(table) = Len(Written(delivered))
    /\ \A i \in 1..Len(table) : RowMatches(table[i], Written(delivered)[i])
    /\ (ev.kind = "message" /\ ev.rc # 0) =>
         (pc = "loop" /\ exit_code = -1 /\ link = "up" /\ ~loop_err)

C2_Witness ==
    /\ Len(delivered) = 2
    /\ ~delivered[1].ok
    /\ delivered[2].ok
    /\ Len(table) = 1
    /\ RowMatches(table[1], delivered[2])

\* C3: of two disconnect events less than the throttle interval apart, at
\* most one runs the repair command, and a repair trigger that did run the
\* command was not inside the interval since the previous run.
C3_ThrottledWithinInterval ==
    \A i, j \in 1..Len(discLog) :
        (i < j /\ discLog[j].at - discLog[i].at < SCRIPT_MIN_INTERVAL_SEC)
            => ~(discLog[i].ran /\ discLog[j].ran)

C3_Witness ==
    /\ Len(discLog) >= 2
    /\ discLog[2].at - discLog[1].at = ShortWait
    /\ discLog[1].ran
    /\ ~discLog[2].ran
    /\ repair = "throttled"

\* C4 as claimed: of two disconnect events more than the throttle interval
\* apart, each runs the repair command.
C4_Claimed_BothFire ==
    \A i, j \in 1..Len(discLog) :
        (i < j /\ discLog[j].at - discLog[i].at > SCRIPT_MIN_INTERVAL_SEC)
            => (discLog[i].ran /\ discLog[j].ran)

\* C4 as amended: of two successive disconnect events (no repair trigger
\* between them) more than the throttle interval apart, the later one runs
\* the repair command; the earlier one may have been throttled by a run less
\* than the interval before it.
C4_LaterEventFires ==
    \A j \in 2..Len(discLog) :
        discLog[j].at - discLog[j - 1].at > SCRIPT_MIN_INTERVAL_SEC
            => discLog[j].ran

C4_Witness ==
    /\ Len(discLog) >= 2
    /\ discLog[2].at - discLog[1].at > SCRIPT_MIN_INTERVAL_SEC
    /\ ~discLog[1].ran
    /\ discLog[2].ran

\* C5: every disconnect event the transport reports, whatever its code,
\* calls the repair trigger inside the disconnect handler, and the socket is
\* still closed (no connect attempt made) when the handler is done.
C5_DisconnectInvokesRepair ==
    (ev.kind = "disconnect" \/ (ev.kind = "connack" /\ ev.rc # 0))
        => (repair # "none" /\ link = "closed")

C5_Witness ==
    /\ ev.kind = "disconnect"
    /\ ev.rc = 0
    /\ g_should_stop = 1
    /\ repair \in {"ran", "throttled", "launch_failed"}

\* C6: while a session is open, exactly one subscribe request was issued on
\* it, for the configured topic filter at QoS 0; whether or not that request
\* was accepted, the process is in its run loop and has not exited.
C6_OneSubscribePerConnect ==
    link = "up" =>
        /\ subReqs = <<[topic |-> g_topic, qos |-> 0]>>
        /\ pc = "loop"
        /\ exit_code = -1

C6_Witness ==
    /\ link = "up"
    /\ ~subscribed
    /\ Len(discLog) >= 1
    /\ Len(subReqs) = 1
    /\ pc = "loop"

\* C7: the delay values handed to the reconnect scheduler are the configured
\* minimum and maximum, and the starting delay is never zero.
C7_Claimed_BackoffBounds ==
    delayCfg.set =>
        /\ delayCfg.delay = env_or_default_int(envMin, DefaultReconnectMin)
        /\ delayCfg.max = env_or_default_int(envMax, DefaultReconnectMax)
        /\ delayCfg.delay > 0

\* C8: the run loop does not end unless shutdown was requested.
C8_Claimed_LoopEndsOnlyOnShutdown ==
    ev.kind = "loop_return" => g_should_stop = 1

\* C9: once a termination signal has set the stop flag, a transport
\* disconnect is requested for as long as the process runs.
C9_Claimed_SignalRequestsDisconnect ==
    (g_should_stop = 1 /\ pc # "done") => mosq_state = "disconnecting"

\* C10 as claimed: every connect error, the initial one and every failed
\* reconnect attempt, calls the repair trigger.
C10_Claimed_EveryConnectErrorRepairs ==
    ev.kind \in {"connect_fail", "reconnect_fail"} => repair # "none"

\* C10 as amended: the initial connect error calls the repair trigger and
\* the run loop is entered; a failed reconnect attempt of the run loop calls
\* no repair trigger; and after either, the run loop is left only when
\* shutdown was requested.
C10_ConnectErrors ==
    [][ /\ ev'.kind = "connect_fail" => (repair' # "none" /\ pc' = "loop")
        /\ ev'.kind = "reconnect_fail" => (repair' = "none" /\ pc' = "loop")
        /\ (ev.kind \in {"connect_fail", "reconnect_fail"} /\ pc = "loop" /\ pc' # "loop")
              => g_should_stop = 1 ]_vars

C10_Witness ==
    /\ ev.kind = "reconnect_fail"
    /\ repair = "none"
    /\ pc = "loop"
    /\ Len(discLog) >= 1

\* C11: the process exits with code 1 exactly when a start-up step failed
\* (storage initialization or the allocation of the session object), and then
\* no connect request was issued and the run loop was never entered; every
\* other termination is the run loop ending after a clean shutdown, with
\* exit code 0.
C11_Claimed_ExitCodes ==
    /\ (exit_code = 1) = (pc = "done" /\ ev.kind \in {"db_init", "mosq_new"} /\ ev.rc # 0)
    /\ exit_code = 1 => (link = "closed" /\ subReqs = <<>> /\ discLog = <<>>)
    /\ (pc = "done" /\ exit_code # 1) =>
          (exit_code = 0 /\ ev.kind = "loop_return" /\ ev.rc = 0 /\ g_should_stop = 1)

\* C12: a termination signal that arrives while a store write or a repair
\* command is at work does not cut it short.  The write has its outcome (a
\* complete row when the step succeeded, no row otherwise) and the repair
\* trigger has its outcome; at process exit the store holds, for every
\* message, a complete record or none.
C12_CooperativeShutdown ==
    /\ (ev.kind = "message" /\ ev.sig # "none") =>
          /\ Len(table) = Len(Written(delivered))
          /\ delivered[Len(delivered)].ok =>
                RowMatches(table[Len(table)], delivered[Len(delivered)])
    /\ (ev.kind = "disconnect" /\ ev.sig # "none") =>
          /\ repair # "none"
          /\ discLog[Len(discLog)].out = repair
    /\ pc = "done" =>
          /\ Len(table) = Len(Written(delivered))
          /\ \A i \in 1..Len(table) :
                /\ DOMAIN table[i] = {"id", "ts", "topic", "payload", "qos", "retain"}
                /\ RowMatches(table[i], Written(delivered)[i])

C12_Witness ==
    /\ ev.kind = "message"
    /\ ev.sig = "SIGTERM"
    /\ g_should_stop = 1
    /\ mosq_state = "disconnecting"
    /\ Len(delivered) = 2
    /\ AllWritten
    /\ Len(table) = 2
    /\ RowMatches(table[2], delivered[2])

\* A payload without a zero byte (none at all counts).
NulFree(payload) == \A i \in 1..Len(payload) : payload[i] # 0

\* C13 as claimed: the stored payload is never null; an absent or empty
\* payload is stored as the empty string and any other payload as the text
\* of its bytes before the first zero byte.
C13_Claimed_StoredPayload ==
    Len(table) = Len(Written(delivered)) =>
        \A i \in 1..Len(table) :
            LET p == Written(delivered)[i].msg.payload
            IN /\ table[i].payload # NoPayload
               /\ table[i].payload =
                     IF p = NoPayload \/ p = <<>> THEN <<>> ELSE CStr(p)

\* C13 as amended: the stored payload is never null; an absent or empty
\* payload is stored as the empty string, and so is a payload whose copy
\* could not be allocated; any other payload is stored as the text of its
\* bytes before the first zero byte.
C13_StoredPayload ==
    Len(table) = Len(Written(delivered)) =>
        \A i \in 1..Len(table) :
            LET p == Written(delivered)[i].msg.payload
                mem == Written(delivered)[i].mem
            IN /\ table[i].payload # NoPayload
               /\ table[i].payload =
                     IF p = NoPayload \/ p = <<>> \/ ~mem THEN <<>> ELSE CStr(p)

C13_Witness ==
    /\ Len(table) = 2
    /\ AllWritten
    /\ delivered[1].msg.payload = <<7, 0, 9>>
    /\ delivered[1].mem
    /\ table[1].payload = <<7>>
    /\ delivered[2].msg.payload = <<104, 105>>
    /\ ~delivered[2].mem
    /\ table[2].payload = <<>>

\* C14 as claimed: after a successful insert of a message whose payload has
\* no zero byte, the latest row has the message's topic, payload, qos and
\* retain values, and its ts is the wall clock of that insert.
C14_Claimed_RoundTrip ==
    [][ (Len(delivered') = Len(delivered) + 1
          /\ delivered'[Len(delivered')].ok
          /\ NulFree(delivered'[Len(delivered')].msg.payload)) =>
            LET m == delivered'[Len(delivered')].msg
                row == table'[Len(table')]
            IN /\ Len(table') = Len(table) + 1
               /\ row.topic = m.topic
               /\ row.payload = (IF m.payload = NoPayload THEN <<>> ELSE m.payload)
               /\ row.qos = m.qos
               /\ row.retain = m.retain
               /\ row.ts = now ]_vars

\* C14 as amended: after a successful insert of a message whose payload has
\* no zero byte, the latest row has the message's topic, qos and retain
\* values, its payload is the message's, or the empty string when the
\* copy of the payload could not be allocated, and its ts is the wall clock
\* of that insert.
C14_RoundTrip ==
    [][ (Len(delivered') = Len(delivered) + 1
          /\ delivered'[Len(delivered')].ok
          /\ NulFree(delivered'[Len(delivered')].msg.payload)) =>
            LET m == delivered'[Len(delivered')].msg
                mem == delivered'[Len(delivered')].mem
                row == table'[Len(table')]
            IN /\ Len(table') = Len(table) + 1
               /\ row.topic = m.topic
               /\ row.payload = (IF m.payload = NoPayload \/ ~mem THEN <<>> ELSE m.payload)
               /\ row.qos = m.qos
               /\ row.retain = m.retain
               /\ row.ts = now ]_vars

C14_Witness ==
    /\ ev.kind = "message"
    /\ Len(delivered) = 2
    /\ AllWritten
    /\ delivered[2].msg = [topic |-> "obk681BA32A/state", payload |-> <<104, 105>>,
                           qos |-> 1, retain |-> 0]
    /\ delivered[2].mem
    /\ table[2].payload = <<104, 105>>
    /\ table[2].qos = 1
    /\ table[1].ts < table[2].ts
    /\ table[2].ts = now

\* The objects of a complete schema, in creation order.
SchemaObjects ==
    << [kind |-> "table", name |-> "messages"],
       [kind |-> "index", name |-> "idx_messages_ts"],
       [kind |-> "index", name |-> "idx_messages_topic"] >>

\* C15: schema initialization on a database file that an earlier run left
\* (with or without records) raises no SQL error, leaves the rows and the
\* id counter as they were, leaves a complete schema as it was, and when it
\* succeeds the file holds the messages table and its two indexes once each.
C15_SchemaInitIdempotent ==
    [][ (pc = "db_init" /\ pc' # "db_init") =>
          /\ table' = table
          /\ seq' = seq
          /\ ev'.rc # SQLITE_ERROR
          /\ ev'.rc = SQLITE_OK => schema' = SchemaObjects
          /\ schema = SchemaObjects => schema' = schema ]_vars

C15_Witness ==
    /\ ev.kind = "db_init"
    /\ ev.rc = SQLITE_OK
    /\ pc = "mosq_new"
    /\ Len(table) = 2
    /\ schema = SchemaObjects

\* C16 as claimed: when an insert call has returned, the prepared statement
\* is reset and ready; it is never in its executed state between two
\* message events.
C16_Claimed_ResetAfterInsert ==
    pc = "loop" => g_stmt_insert = "ready"

\* C16 as amended: every insert call resets the statement before it binds,
\* so it executes the same whether the call before succeeded or failed (a
\* row is added exactly when the step succeeds); the statement stays in its
\* executed state after the call, until the next call or the end of the run.
C16_ResetBeforeUse ==
    [][ Len(delivered') = Len(delivered) + 1 =>
          /\ g_stmt_insert \in {"ready", "executed"}
          /\ g_stmt_insert' = "executed"
          /\ Len(table') = Len(table) + (IF delivered'[Len(delivered')].ok THEN 1 ELSE 0) ]_vars

C16_Witness ==
    /\ ev.kind = "message"
    /\ g_stmt_insert = "executed"
    /\ Len(delivered) = 2
    /\ ~delivered[1].ok
    /\ delivered[2].ok
    /\ Len(table) = 1

\* C17: a termination signal sent to the process after the handlers are
\* installed leads to the end of the process.
C17_Claimed_SignalNeverLost ==
    signalled ~> (pc = "done")

\* C18: a throttled repair trigger leaves the timestamp as it is, so the
\* window counts from the last run of the command: in a burst of
\* disconnect events, the first event that is a full interval after the
\* last one that ran the command runs it again, however many throttled
\* events lie in between.
C18_ThrottledKeepsTimestamp ==
    [][ /\ repair' = "throttled" => g_last_script_run' = g_last_script_run
        /\ \A i, j \in 1..Len(discLog') :
              ( /\ i < j
                /\ discLog'[i].ran
                /\ \A k \in (i + 1)..(j - 1) : ~discLog'[k].ran
                /\ discLog'[j].at - discLog'[i].at >= SCRIPT_MIN_INTERVAL_SEC )
                    => discLog'[j].ran ]_vars

C18_Witness ==
    /\ Len(discLog) = 3
    /\ discLog[1].ran
    /\ ~discLog[2].ran
    /\ discLog[3].ran
    /\ discLog[2].at - discLog[1].at = ShortWait
    /\ discLog[3].at - discLog[2].at = ShortWait
    /\ g_last_script_run = discLog[3].at

\* C19: the timestamp is recorded although the command could not be
\* launched, so every disconnect event less than the interval after a
\* launch failure is throttled; and the launch failure stops nothing: the
\* process is in (or enters) its run loop and has not exited.
C19_LaunchFailureConsumesWindow ==
    [][ /\ ( /\ repair' = "launch_failed"
              /\ ((pc = "connect" /\ pc' = "loop") \/ Len(discLog') > Len(discLog)) )
                  => g_last_script_run' = now
        /\ repair' = "launch_failed" => (pc' = "loop" /\ exit_code' = -1)
        /\ \A i, j \in 1..Len(discLog') :
              ( /\ i < j
                /\ discLog'[i].out = "launch_failed"
                /\ discLog'[j].at - discLog'[i].at < SCRIPT_MIN_INTERVAL_SEC )
                    => discLog'[j].out = "throttled" ]_vars

C19_Witness ==
    /\ Len(discLog) = 2
    /\ discLog[1].out = "launch_failed"
    /\ discLog[2].out = "throttled"
    /\ discLog[2].at - discLog[1].at = ShortWait
    /\ pc = "loop"
    /\ exit_code = -1

\* C20: the first repair trigger of a run is never throttled: a trigger is
\* throttled only after the command was run (or its launch attempted) in
\* this run, which sets the timestamp to a clock value other than 0.
C20_Claimed_FirstTriggerRuns ==
    repair = "throttled" => g_last_script_run # 0

====
